---- MODULE Spec2Model ----
(***************************************************************************)
(* Model of the autoregressive decoding engine of                          *)
(* src/speechbrain/decoders/seq2seq.py: the beam-search driver             *)
(* (S2SBeamSearcher on a transformer-style backend) and the greedy driver  *)
(* (S2SGreedySearcher).                                                    *)
(*                                                                         *)
(* Log-probabilities and scores are integers.  float("-inf") is NegInf,    *)
(* the sentinel minus_inf (-1e20 in the source) is a large negative        *)
(* integer, and a float addition that involves a value of the sentinel's   *)
(* magnitude absorbs the small operand, as -1e20 + (-3.0) == -1e20 does.   *)
(* A score divided by (step + 1) is kept as numerator and denominator, so   *)
(* that the order of normalised scores is that of the quotients; the       *)
(* product of the rounded quotient by (step + 1) is exact when (step + 1)  *)
(* is a power of two and the nearest multiple of (step + 1) otherwise: the *)
(* unit of a score is its last place, far below the gaps between the       *)
(* log-probabilities of a row.                                             *)
(* Beams, batch elements and tokens are numbered from 0 as in the source.  *)
(***************************************************************************)
EXTENDS Integers, Sequences, FiniteSets, TLC

\* ------------------------------------------------------------------ bounds
MaxBatch == 2
MaxBeam == 2
MaxSteps == 2
MaxMinSteps == 1
\* step bound of the searches long enough to divide by 3
MaxLongSteps == 3
\* beam sizes of the searches over vocabularies of two and three tokens
MaxSeedBeam == 3
\* encoder lengths range over 0 .. MaxEncLen
MaxEncLen == 3
\* decode ratios are the multiples q / RatioDen with q in 0 .. MaxRatio
RatioDen == 4
MaxRatio == 6
\* the max_length of a fixed-prefix decoder ranges over PrefixTokens .. PrefixTokens + MaxCap
MaxCap == 3
\* reserved indices given to the constructor range over 0 .. MaxIndex
MaxIndex == 2
\* length-reward weights given to the constructor range over -MaxLengthWeight .. MaxLengthWeight
MaxLengthWeight == 1
\* half-width of the attention-shift window (a constructor parameter)
max_attn_shift == 1

\* --------------------------------------------------------- program values
bos_index == 0
eos_index == 1
minus_inf == -1000000
NegInf == -1000000000
PosInf == 1000000000
eos_threshold_num == 3
eos_threshold_den == 2
\* the tokens [bos, language, task] of line 1753
PrefixTokens == 3
\* scorer weights are counted in halves: the weight 1.0 of line 416
WeightOne == 2

VARIABLES
    driver,             \* which searcher runs: "beam" or "greedy"
    pc,                 \* position of forward(): "loop", "fill", "rank", "done", "error"
    batch_size, beam_size, topk, n_out,
    min_decode_steps, max_decode_steps,
    length_normalization, using_eos_threshold, using_max_attn_shift,
    step,               \* number of search steps executed so far
    alived_seq, alived_log_probs, sequence_scores,
    inp_tokens, memory, prev_attn_peak,
    log_probs_clone,    \* the step function's distribution of the last step
    attn_peak,          \* the attention peaks of the last step, before routing
    log_probs,          \* the distribution that entered selection in the last step
    scores, scores_den, \* normalised scores of the last step: scores[i] / scores_den
    candidates, predecessors,
    stage_order,        \* the stages of the last search step, in the order they ran
    selected_masked,    \* per beam: a candidate selected on its path had been masked
    eos_hyps_and_log_probs_scores,
    result,             \* the ranked output of _get_topk_prediction
    \* S2SGreedySearcher.forward, two invocations g \in Runs on the same inputs
    g_pc, g_inp_tokens, g_memory, g_has_ended, g_log_probs_lst, g_result,
    g_min_decode_ratio, \* the min_decode_ratio of each invocation's searcher, over RatioDen
    oracle,             \* the step function, as far as it has been evaluated
    ctor_args,          \* the arguments S2SBeamSearcher.__init__ was called with
    ctor_result,        \* what the constructor did: the error raised, the weights set
    permute_mem_implemented,  \* whether the backend overrides permute_mem
    self_batch_size,    \* the searcher's field self.batch_size (n_bh and beam_offset follow it)
    length_args         \* what the decode step bounds are computed from

searchcfg == <<batch_size, beam_size, topk, n_out, min_decode_steps, max_decode_steps,
               length_normalization, using_eos_threshold, using_max_attn_shift>>
cfgvars == <<searchcfg, ctor_args, ctor_result, permute_mem_implemented, self_batch_size,
             length_args>>
hypvars == <<alived_seq, alived_log_probs, sequence_scores, inp_tokens, memory,
             prev_attn_peak, log_probs_clone, attn_peak, log_probs, scores, scores_den,
             candidates, predecessors, stage_order, selected_masked>>
beamvars == <<pc, step, hypvars, eos_hyps_and_log_probs_scores, result>>
greedyvars == <<g_pc, g_inp_tokens, g_memory, g_has_ended, g_log_probs_lst, g_result,
                g_min_decode_ratio, oracle>>
vars == <<driver, cfgvars, beamvars, greedyvars>>

\* --------------------------------------------------------------- helpers
n_bh == batch_size * beam_size
Beams == 0 .. (n_bh - 1)
Batches == 0 .. (batch_size - 1)
Tokens == 0 .. (n_out - 1)
beam_offset(b) == b * beam_size
BeamsOf(b) == beam_offset(b) .. (beam_offset(b) + beam_size - 1)

\* self.beam_offset, lines 957-959, as row b of a (batch_size, topk) tensor
\* sees it through unsqueeze(1): a single offset 0 is broadcast to every row
self_beam_offset(b) == IF self_batch_size = 1 THEN 0 ELSE b * beam_size

\* self.batch_size, self.n_bh and self.beam_offset are those of this search
SharedFieldsFit == self_batch_size = batch_size

\* the value at token t of a row of log-probabilities (rows are 1-indexed tuples)
At(row, t) == row[t + 1]

Max(a, b) == IF a >= b THEN a ELSE b
Abs(x) == IF x < 0 THEN -x ELSE x

\* float addition with -inf and with absorption at the sentinel's magnitude
FAdd(x, y) ==
    IF x = NegInf \/ y = NegInf THEN NegInf
    ELSE LET s == x + y
         IN IF s <= minus_inf THEN -(((-s) \div (-minus_inf)) * (-minus_inf)) ELSE s

\* the quotient x / n rounded to the nearest unit, halves away from zero
RoundDiv(x, n) ==
    IF x >= 0 THEN (2 * x + n) \div (2 * n) ELSE -((2 * (-x) + n) \div (2 * n))

\* the normalisation left in place: the quotient is stored
RecoverNormalization_NotRecovered(x, n) ==
    IF x = NegInf THEN NegInf ELSE RoundDiv(x, n)

\* (scores / (step + 1)) * (step + 1), lines 869-886: dividing by a power of
\* two is exact in binary floating point; any other quotient is rounded
RecoverNormalization(x, n) ==
    IF x = NegInf THEN NegInf
    ELSE IF n \in {1, 2, 4, 8} THEN x
    ELSE n * RoundDiv(x, n)

\* ------------------------------------------------- the step function
\* One output of forward_step for one beam: a row of log-probabilities over
\* the vocabulary and the position of the attention peak.  The model is an
\* opaque collaborator: every step draws each beam's output from this set.
RowEosBest == <<-20, -10, -30, -40, -50>>
RowEosMasked == <<-10, -30, -20, -40, -50>>
RowEosSecond == <<-40, -50, -60, -70, -80>>
RowOf(r) == SubSeq(r, 1, n_out)
StepOutputs ==
    { [lp |-> RowOf(RowEosBest), peak |-> 0],
      [lp |-> RowOf(RowEosSecond), peak |-> 1],
      [lp |-> RowOf(RowEosMasked), peak |-> 2] }

\* forward_step is a function of its i-th inputs: beams of one batch element
\* that hold the same memory and the same input token get the same output
PureStep(out) ==
    \A b \in Batches : \A i, j \in BeamsOf(b) :
        (memory[i] = memory[j] /\ inp_tokens[i] = inp_tokens[j]) => out[i] = out[j]

\* S2STransformerBeamSearcher.forward_step: _update_mem appends the input token
forward_step_memory(mem, tok) == Append(mem, tok)

\* ------------------------------------------------- constraint stage
RowMax(row) == CHOOSE m \in {row[k] : k \in 1 .. n_out} : \A k \in 1 .. n_out : row[k] <= m

\* _check_attn_shift: TRUE when the peak stays within the window
_check_attn_shift(peak, prev) ==
    /\ peak <= prev + max_attn_shift
    /\ peak > prev - max_attn_shift

_max_attn_shift_step(peak, prev, row) ==
    IF using_max_attn_shift /\ ~_check_attn_shift(peak, prev)
    THEN [k \in 1 .. n_out |-> minus_inf]
    ELSE row

_set_eos_minus_inf_step(row, stp, min_steps) ==
    IF stp < min_steps THEN [row EXCEPT ![eos_index + 1] = minus_inf] ELSE row

\* eos_probs > eos_threshold * max_probs, with eos_threshold = 3/2
_check_eos_threshold(row) ==
    eos_threshold_den * At(row, eos_index) > eos_threshold_num * RowMax(row)

_eos_threshold_step_NoMask(row) == row

_eos_threshold_step(row) ==
    IF using_eos_threshold /\ ~_check_eos_threshold(row)
    THEN [row EXCEPT ![eos_index + 1] = minus_inf]
    ELSE row

\* the constraint calls with the eos threshold taken first
ConstraintStages_ThresholdFirst == <<"_eos_threshold_step", "_max_attn_shift_step",
                                     "_set_eos_minus_inf_step">>

\* search_step, lines 1186-1194: the constraint calls in the order of the code
ConstraintStages == <<"_max_attn_shift_step", "_set_eos_minus_inf_step",
                      "_eos_threshold_step">>

\* lines 1196-1207: scorer fusion and selection follow the constraints
StagesOfStep == ConstraintStages \o <<"_scorer_step", "_compute_scores_and_next_inp_tokens">>

\* one constraint call on the row of beam i
ApplyStage(s, row, out, i) ==
    CASE s = "_max_attn_shift_step" ->
             _max_attn_shift_step(out[i].peak, prev_attn_peak[i], row)
      [] s = "_set_eos_minus_inf_step" ->
             _set_eos_minus_inf_step(row, step, min_decode_steps)
      [] s = "_eos_threshold_step" -> _eos_threshold_step(row)

RECURSIVE ApplyStages(_, _, _, _)
ApplyStages(stages, row, out, i) ==
    IF stages = <<>> THEN row
    ELSE ApplyStages(Tail(stages), ApplyStage(Head(stages), row, out, i), out, i)

\* search_step, lines 1186-1194: the distribution that enters selection
Constrained(out, i) == ApplyStages(ConstraintStages, out[i].lp, out, i)

\* ------------------------------------------------- selection stage
\* flattened candidate c of batch element b: beam c \div n_out, token c % n_out
\* the beam within the element, the offset of the element left out
CandBeam_NoOffset(b, c) == c \div n_out

\* lines 889-892: candidates // n_out + beam_offset
CandBeam(b, c) == (c \div n_out) + beam_offset(b)
CandToken(c) == c % n_out
\* the candidate scored by its own log-probability, the path's score left out
CandScore_TokenOnly(lps, b, c) == At(lps[CandBeam(b, c)], CandToken(c))

\* lines 864-865: sequence_scores + log_probs
CandScore(lps, b, c) == FAdd(sequence_scores[CandBeam(b, c)], At(lps[CandBeam(b, c)], CandToken(c)))

\* torch.topk: the k best of S in non-increasing order; the order among equal
\* values is not specified, so every choice is a possible outcome
\* the k best of S returned in non-decreasing order, the best one last
RECURSIVE TopKSeqs_Ascending(_, _, _)
TopKSeqs_Ascending(S, k, sc) ==
    IF k = 0 \/ S = {} THEN {<<>>}
    ELSE UNION { { r \o <<c>> : r \in TopKSeqs_Ascending(S \ {c}, k - 1, sc) } :
                 c \in {d \in S : \A e \in S : sc[e] <= sc[d]} }

RECURSIVE TopKSeqs(_, _, _)
TopKSeqs(S, k, sc) ==
    IF k = 0 \/ S = {} THEN {<<>>}
    ELSE UNION { { <<c>> \o r : r \in TopKSeqs(S \ {c}, k - 1, sc) } :
                 c \in {d \in S : \A e \in S : sc[e] <= sc[d]} }

\* dividing every candidate of a step by (step + 1) keeps their order
TopKOfBatch(lps, b) ==
    TopKSeqs(0 .. (beam_size * n_out - 1), beam_size,
             [c \in 0 .. (beam_size * n_out - 1) |-> CandScore(lps, b, c)])

\* one top-K outcome per batch element
RECURSIVE TopKChoices(_, _)
TopKChoices(lps, nb) ==
    IF nb = 0 THEN {<<>>}
    ELSE { Append(r, s) : r \in TopKChoices(lps, nb - 1), s \in TopKOfBatch(lps, nb - 1) }

BatchOf(i) == i \div beam_size
SlotOf(i) == (i % beam_size) + 1

\* ------------------------------------------------- terminator
\* _check_full_beams that never reports full pools
_check_full_beams_Never(hyps) == FALSE

\* _check_full_beams that is satisfied by one entry per pool
_check_full_beams_AnyEntry(hyps) == \A b \in Batches : Len(hyps[b]) >= 1

\* _check_full_beams: every completed pool holds beam_size entries
_check_full_beams(hyps) == \A b \in Batches : Len(hyps[b]) = beam_size

\* RecordIfEos without the capacity check of lines 1039-1043
RecordIfEos_NoCapacityCheck(hyps, index, is_eos, seqs, lps, sc, den) ==
    IF ~is_eos[index] THEN hyps
    ELSE [hyps EXCEPT ![index \div beam_size] =
             Append(@, [hyp |-> seqs[index], log_probs |-> lps[index],
                        final_scores |-> sc[index], den |-> den])]

\* a full pool whose last entry gives way to the new hypothesis
RecordIfEos_ReplaceLastWhenFull(hyps, index, is_eos, seqs, lps, sc, den) ==
    IF ~is_eos[index] THEN hyps
    ELSE LET new == [hyp |-> seqs[index], log_probs |-> lps[index],
                     final_scores |-> sc[index], den |-> den]
             b == index \div beam_size
         IN IF Len(hyps[b]) = beam_size
            THEN [hyps EXCEPT ![b] = [@ EXCEPT ![beam_size] = new]]
            ELSE [hyps EXCEPT ![b] = Append(@, new)]

\* the body of the loop of _update_hyps_and_scores_if_eos_token for one index
RecordIfEos(hyps, index, is_eos, seqs, lps, sc, den) ==
    IF ~is_eos[index] THEN hyps
    ELSE IF Len(hyps[BatchOf(index)]) = beam_size THEN hyps
    ELSE [hyps EXCEPT ![BatchOf(index)] =
             Append(@, [hyp |-> seqs[index], log_probs |-> lps[index],
                        final_scores |-> sc[index], den |-> den])]

\* _update_hyps_and_scores_if_eos_token: the eos indices in increasing order
RECURSIVE _update_hyps_and_scores_if_eos_token(_, _, _, _, _, _, _)
_update_hyps_and_scores_if_eos_token(hyps, index, is_eos, seqs, lps, sc, den) ==
    IF index = n_bh THEN hyps
    ELSE _update_hyps_and_scores_if_eos_token(
             RecordIfEos(hyps, index, is_eos, seqs, lps, sc, den),
             index + 1, is_eos, seqs, lps, sc, den)

\* permute_mem that returns the memory unpermuted
permute_mem_Unpermuted(mem, index) == mem

\* S2STransformerBeamSearcher.permute_mem: index_select along the beam dimension
permute_mem(mem, index) == [i \in Beams |-> mem[index[i]]]

\* a backend without permute_mem that hands the memory back as it is
backend_permute_mem_SilentNoOp(mem, index) ==
    IF permute_mem_implemented
    THEN [raised |-> FALSE, value |-> permute_mem(mem, index)]
    ELSE [raised |-> FALSE, value |-> mem]

\* self.permute_mem of the backend: the override of lines 1540-1543, or the
\* base method of lines 1357-1373, which raises NotImplementedError
backend_permute_mem(mem, index) ==
    IF permute_mem_implemented
    THEN [raised |-> FALSE, value |-> permute_mem(mem, index)]
    ELSE [raised |-> TRUE, value |-> mem]

\* _attn_weight_permute_memory_step: the memory is routed when attn_weight > 0
_attn_weight_permute_memory_step(mem, index) ==
    IF ctor_result.attn_weight > 0 THEN backend_permute_mem(mem, index)
    ELSE [raised |-> FALSE, value |-> mem]

\* _max_attn_shift_permute_memory_step: the peak history follows the routing
_max_attn_shift_permute_memory_step(peaks, index) ==
    IF using_max_attn_shift THEN [i \in Beams |-> peaks[index[i]]] ELSE peaks

\* ------------------------------------------------- search_step
\* the paths that reached eos left at their score
BlockEosPaths_NotBlocked(sc, is_eos) == sc

\* line 1223: block the paths that have reached eos
BlockEosPaths(sc, is_eos) == [i \in Beams |-> IF is_eos[i] THEN NegInf ELSE sc[i]]

\* the new value written over the last one instead of being appended
_update_sequences_and_log_probs_Overwrite(seq, new) ==
    IF seq = <<>> THEN <<new>> ELSE [seq EXCEPT ![Len(seq)] = new]

\* _update_sequences_and_log_probs, lines 810-834, for one beam: torch.cat of
\* the predecessor's sequence and the new value
_update_sequences_and_log_probs(seq, new) == Append(seq, new)

\* the recorded value taken from the distribution that entered selection
beam_log_probs_AfterConstraints(clone, constrained, p, t) == At(constrained[p], t)

\* lines 821-824: beam_log_probs, read from log_probs_clone at the selected
\* candidate; _attn_weight_step has scaled the row by attn_weight = 1.0
beam_log_probs(clone, constrained, p, t) == At(clone[p], t)

SearchStepWith(out, cand) ==
    LET lps == [i \in Beams |-> Constrained(out, i)]
        chosen(i) == cand[BatchOf(i) + 1][SlotOf(i)]
        toks == [i \in Beams |-> CandToken(chosen(i))]
        preds == [i \in Beams |-> CandBeam(BatchOf(i), chosen(i))]
        sums == [i \in Beams |-> CandScore(lps, BatchOf(i), chosen(i))]
        den == IF length_normalization THEN step + 1 ELSE 1
        mem1 == [i \in Beams |-> forward_step_memory(memory[i], inp_tokens[i])]
        peaks == [i \in Beams |-> out[i].peak]
        seqs == [i \in Beams |->
                    _update_sequences_and_log_probs(alived_seq[preds[i]], toks[i])]
        blps == [i \in Beams |->
                    _update_sequences_and_log_probs(
                        alived_log_probs[preds[i]],
                        beam_log_probs([j \in Beams |-> out[j].lp], lps, preds[i], toks[i]))]
        is_eos == [i \in Beams |-> toks[i] = eos_index]
    IN /\ log_probs' = lps
       /\ log_probs_clone' = [i \in Beams |-> out[i].lp]
       /\ attn_peak' = IF using_max_attn_shift THEN peaks ELSE attn_peak
       /\ candidates' = cand
       /\ stage_order' = StagesOfStep
       /\ selected_masked' =
              [i \in Beams |-> \/ selected_masked[preds[i]]
                               \/ At(lps[preds[i]], toks[i]) # At(out[preds[i]].lp, toks[i])]
       /\ inp_tokens' = toks
       /\ predecessors' = preds
       /\ scores' = sums
       /\ scores_den' = den
       /\ memory' = _attn_weight_permute_memory_step(mem1, preds).value
       /\ prev_attn_peak' = _max_attn_shift_permute_memory_step(
                                IF using_max_attn_shift THEN peaks ELSE prev_attn_peak, preds)
       /\ alived_seq' = seqs
       /\ alived_log_probs' = blps
       /\ eos_hyps_and_log_probs_scores' =
              _update_hyps_and_scores_if_eos_token(
                  eos_hyps_and_log_probs_scores, 0, is_eos, seqs, blps, sums, den)
       /\ sequence_scores' =
              BlockEosPaths([i \in Beams |-> RecoverNormalization(sums[i], den)], is_eos)

\* one iteration of the loop of forward(), lines 1303-1330
SearchStep ==
    /\ pc = "loop"
    /\ step < max_decode_steps
    /\ ~_check_full_beams(eos_hyps_and_log_probs_scores)
    /\ ~_attn_weight_permute_memory_step(memory, predecessors).raised
    /\ SharedFieldsFit
    /\ \E out \in [Beams -> StepOutputs] :
          /\ PureStep(out)
          /\ \E cand \in TopKChoices([i \in Beams |-> Constrained(out, i)], batch_size) :
                SearchStepWith(out, cand)
    /\ step' = step + 1
    /\ UNCHANGED <<driver, pc, cfgvars, result, greedyvars>>

\* an iteration in which _update_permute_memory raises: the exception leaves
\* forward(), nothing of the step is kept and nothing is returned
SearchStepRaises ==
    /\ pc = "loop"
    /\ step < max_decode_steps
    /\ ~_check_full_beams(eos_hyps_and_log_probs_scores)
    /\ _attn_weight_permute_memory_step(memory, predecessors).raised
    /\ pc' = "error"
    /\ UNCHANGED <<driver, cfgvars, step, hypvars, eos_hyps_and_log_probs_scores, result, greedyvars>>

\* the loop with a range one step short: it ends after max_decode_steps - 1 steps
ExitLoop_BeforeStepLimit ==
    /\ pc = "loop"
    /\ (step >= max_decode_steps - 1 \/ _check_full_beams(eos_hyps_and_log_probs_scores))
    /\ pc' = "fill"
    /\ UNCHANGED <<driver, cfgvars, step, hypvars, eos_hyps_and_log_probs_scores, result, greedyvars>>

\* the loop ends: range exhausted, or the break at line 1305
ExitLoop ==
    /\ pc = "loop"
    /\ (step >= max_decode_steps \/ _check_full_beams(eos_hyps_and_log_probs_scores))
    /\ pc' = "fill"
    /\ UNCHANGED <<driver, cfgvars, step, hypvars, eos_hyps_and_log_probs_scores, result, greedyvars>>

\* _fill_alived_hyps_with_eos_token with the test of line 1256 inverted
_fill_alived_hyps_with_eos_token_WhenFull(hyps) ==
    IF \A b \in Batches : Len(hyps[b]) = beam_size
    THEN _update_hyps_and_scores_if_eos_token(
             hyps, 0, [i \in Beams |-> TRUE], alived_seq, alived_log_probs,
             scores, scores_den)
    ELSE hyps

\* _fill_alived_hyps_with_eos_token, called at lines 1332-1334 with the scores
\* of the last search step
_fill_alived_hyps_with_eos_token(hyps) ==
    IF ~_check_full_beams(hyps)
    THEN _update_hyps_and_scores_if_eos_token(
             hyps, 0, [i \in Beams |-> TRUE], alived_seq, alived_log_probs,
             scores, scores_den)
    ELSE hyps

\* no search step ran: the name scores is unbound at line 1333
ScoresUnbound == scores_den = 0

Fill ==
    /\ pc = "fill"
    /\ ~ScoresUnbound
    /\ (SharedFieldsFit \/ _check_full_beams(eos_hyps_and_log_probs_scores))
    /\ eos_hyps_and_log_probs_scores' =
           _fill_alived_hyps_with_eos_token(eos_hyps_and_log_probs_scores)
    /\ pc' = "rank"
    /\ UNCHANGED <<driver, cfgvars, step, hypvars, result, greedyvars>>

FillUnbound ==
    /\ pc = "fill"
    /\ ScoresUnbound
    /\ pc' = "error"
    /\ UNCHANGED <<driver, cfgvars, step, hypvars, eos_hyps_and_log_probs_scores, result, greedyvars>>

\* ------------------------------------------------- ranker
RECURSIVE SeqMaxLen(_)
SeqMaxLen(entries) ==
    IF entries = <<>> THEN 0
    ELSE Max(Len(Head(entries).hyp), SeqMaxLen(Tail(entries)))

RECURSIVE DenProduct(_)
DenProduct(entries) ==
    IF entries = <<>> THEN 1 ELSE Head(entries).den * DenProduct(Tail(entries))

\* ranking on the cumulative score, the division by (step + 1) left out
RankKey_Raw(entries, e) == e.final_scores

\* the final score final_scores / den of a pool entry on the pool's common denominator
RankKey(entries, e) ==
    IF e.final_scores = NegInf THEN NegInf
    ELSE e.final_scores * (DenProduct(entries) \div e.den)

\* pad_sequence(..., padding_value=0)
PadTo(seq, n) == [k \in 1 .. n |-> IF k <= Len(seq) THEN seq[k] ELSE 0]

\* top_hyps.size(1): the longest hypothesis of all pools
MaxHypLen(hyps) ==
    LET lens == {SeqMaxLen(hyps[b]) : b \in Batches}
    IN CHOOSE m \in lens : \A l \in lens : l <= m

\* lines 1072-1078: the entries of all pools in one list, in batch order
RECURSIVE CollectHypotheses(_, _)
CollectHypotheses(hyps, nb) ==
    IF nb = 0 THEN <<>> ELSE CollectHypotheses(hyps, nb - 1) \o hyps[nb - 1]

\* the index into the collected list without the offset of the batch element
TopkIndex_NoOffset(b, j) == j

\* lines 1099-1101: indices + self.beam_offset
TopkIndex(b, j) == j + self_beam_offset(b)

\* line 1095: (top_lengths - 1).abs(), top_lengths being len(hyp)
BeamLengthNumerator(hyp) == Abs(Len(hyp) - 1)

\* _get_topk_prediction for one batch element, given the order idx chosen by
\* topk on the element's row of scores: the scores are those of the row, the
\* hypotheses, lengths and log-probabilities are selected from the collected
\* list by index
TopkOfPool(hyps, b, idx) ==
    [r \in 1 .. Len(idx) |->
        LET e == CollectHypotheses(hyps, batch_size)[TopkIndex(b, idx[r]) + 1]
            sc == hyps[b][idx[r] + 1]
        IN [hyp |-> PadTo(e.hyp, MaxHypLen(hyps)),
            n |-> Len(e.hyp),
            length_num |-> BeamLengthNumerator(e.hyp),
            length_den |-> MaxHypLen(hyps),
            score |-> sc.final_scores,
            score_den |-> sc.den,
            log_probs |-> PadTo(e.log_probs, MaxHypLen(hyps)),
            index |-> TopkIndex(b, idx[r])]]

RankOrders(hyps, b) ==
    TopKSeqs(0 .. (Len(hyps[b]) - 1), topk,
             [j \in 0 .. (Len(hyps[b]) - 1) |-> RankKey(hyps[b], hyps[b][j + 1])])

RECURSIVE _get_topk_prediction(_, _)
_get_topk_prediction(hyps, nb) ==
    IF nb = 0 THEN {<<>>}
    ELSE { Append(r, TopkOfPool(hyps, nb - 1, idx)) :
             r \in _get_topk_prediction(hyps, nb - 1), idx \in RankOrders(hyps, nb - 1) }

\* line 1099: indices + self.beam_offset.unsqueeze(1) broadcasts, and the
\* view of line 1100 fits, when the offsets are those of this batch or a
\* single offset
RankShapesFit == SharedFieldsFit \/ self_batch_size = 1

Rank ==
    /\ pc = "rank"
    /\ RankShapesFit
    /\ \E res \in _get_topk_prediction(eos_hyps_and_log_probs_scores, batch_size) :
          result' = res
    /\ pc' = "done"
    /\ UNCHANGED <<driver, cfgvars, step, hypvars, eos_hyps_and_log_probs_scores, greedyvars>>

\* ------------------------------------------------- a second invocation
\* init_beam_search_data of another forward() on the same searcher, run
\* between two operations of this one for a batch of B2 elements: lines
\* 938-959 overwrite self.batch_size, self.n_bh and self.beam_offset. A larger
\* batch may arrive at any boundary, a smaller one before ranking.
init_beam_search_data_Other ==
    /\ driver = "beam"
    /\ pc \in {"loop", "fill", "rank"}
    /\ SharedFieldsFit
    /\ \E B2 \in 1 .. (MaxBatch + 1) :
          /\ B2 # batch_size
          /\ B2 < batch_size => pc = "rank"
          /\ self_batch_size' = B2
    /\ UNCHANGED <<driver, searchcfg, ctor_args, ctor_result, permute_mem_implemented,
                   length_args, beamvars, greedyvars>>

\* search_step with the fields of a larger batch: the views of lines 872-879
\* do not fit, or the predecessors of lines 889-892 index beams this search
\* does not have and index_select raises
SearchStepMisshapen ==
    /\ pc = "loop"
    /\ step < max_decode_steps
    /\ ~_check_full_beams(eos_hyps_and_log_probs_scores)
    /\ self_batch_size > batch_size
    /\ pc' = "error"
    /\ UNCHANGED <<driver, cfgvars, step, hypvars, eos_hyps_and_log_probs_scores, result, greedyvars>>

\* the forced fill with self.n_bh of a larger batch: line 1037 indexes a pool
\* this search does not have
FillMisshapen ==
    /\ pc = "fill"
    /\ ~ScoresUnbound
    /\ ~_check_full_beams(eos_hyps_and_log_probs_scores)
    /\ self_batch_size > batch_size
    /\ pc' = "error"
    /\ UNCHANGED <<driver, cfgvars, step, hypvars, eos_hyps_and_log_probs_scores, result, greedyvars>>

\* ranking with offsets that neither broadcast nor fit the view of line 1100
RankMisshapen ==
    /\ pc = "rank"
    /\ ~RankShapesFit
    /\ pc' = "error"
    /\ UNCHANGED <<driver, cfgvars, step, hypvars, eos_hyps_and_log_probs_scores, result, greedyvars>>

\* ------------------------------------------------- greedy driver
Runs == {1, 2}
Rows == 0 .. (batch_size - 1)

RowTie == <<-10, -10, -20, -30, -40>>
GreedyOutputs == {RowOf(RowEosBest), RowOf(RowEosMasked), RowOf(RowTie)}

\* torch.argmax / torch.max: the index of the first maximal value
ArgMax(row) == (CHOOSE k \in 1 .. n_out :
                   /\ row[k] = RowMax(row)
                   /\ \A j \in 1 .. (k - 1) : row[j] < row[k]) - 1

\* the arguments of forward_step for one row: the row's encoder states and
\* the tokens fed so far (S2STransformerGreedySearch: memory after _update_mem)
StepArgs(g, r) == <<r, forward_step_memory(g_memory[g][r], g_inp_tokens[g][r])>>

\* a deterministic step function: an argument seen before gives the same output
OracleAllows(g, out) ==
    \A r \in Rows : StepArgs(g, r) \in DOMAIN oracle => out[r] = oracle[StepArgs(g, r)]

OracleAfter(g, out) ==
    [a \in DOMAIN oracle \cup {StepArgs(g, r) : r \in Rows} |->
        IF a \in DOMAIN oracle THEN oracle[a] ELSE out[a[1]]]

\* has_ended kept in one place shared by all invocations
HasEndedOf_Shared(g) == g_has_ended[1]

\* has_ended is a local of the invocation, line 196
HasEndedOf(g) == g_has_ended[g]

\* the rows that had ended left as the model gave them
MaskEnded_NoMask(has_ended, out) == out

\* line 203: rows that had ended before this step are overwritten with +inf
MaskEnded(has_ended, out) ==
    [r \in Rows |-> IF has_ended[r] THEN [k \in 1 .. n_out |-> PosInf] ELSE out[r]]

\* has_ended overwritten with the rows that emit eos in this step
UpdateHasEnded_ThisStepOnly(has_ended, toks) == [r \in Rows |-> toks[r] = eos_index]

\* line 204
UpdateHasEnded(has_ended, toks) == [r \in Rows |-> has_ended[r] \/ toks[r] = eos_index]

\* ------------------------------------------------- decode step bounds
\* the product n / d rounded up
IntOfProduct_Ceiling(n, d) == (n + d - 1) \div d

\* int(x) of a product x = n / d that is not negative: the fraction is dropped
IntOfProduct(n, d) == n \div d

\* lines 972-973 and 188: int(enc_states.shape[1] * ratio)
DefaultDecodeSteps(a) ==
    [min |-> IntOfProduct(a.encoder_len * a.min_decode_ratio, RatioDen),
     max |-> IntOfProduct(a.encoder_len * a.max_decode_ratio, RatioDen)]

\* change_max_decoding_length: the base method of lines 138-140 returns its
\* arguments, the fixed-prefix decoders of lines 1654-1659 and 1775-1780
\* return int(ratio * self.max_length), self.max_length being max_length - 3
change_max_decoding_length(a, steps) ==
    IF a.backend = "whisper"
    THEN [min |-> IntOfProduct(a.min_decode_ratio * (a.max_length - PrefixTokens), RatioDen),
          max |-> IntOfProduct(a.max_decode_ratio * (a.max_length - PrefixTokens), RatioDen)]
    ELSE steps

\* lines 972-982
DecodeSteps(a) == change_max_decoding_length(a, DefaultDecodeSteps(a))

\* the searcher of invocation g: that of the search, with its own min_decode_ratio
GreedySearcher(g) == [length_args EXCEPT !.min_decode_ratio = g_min_decode_ratio[g]]

\* the range of the loop taken from min_decode_ratio
GreedyDecodeSteps_FromMinimum(a) == DecodeSteps(a).min

\* lines 188-194: int(enc_states.shape[1] * self.max_decode_ratio), then
\* _, max_decode_steps = self.change_max_decoding_length(0, max_decode_steps)
GreedyDecodeSteps(a) ==
    change_max_decoding_length(a, [min |-> 0, max |-> DefaultDecodeSteps(a).max]).max

\* one iteration of the loop of S2SGreedySearcher.forward, lines 197-206
GreedyStep(g) ==
    /\ driver = "greedy"
    /\ g_pc[g] = "loop"
    /\ Len(g_log_probs_lst[g]) < GreedyDecodeSteps(GreedySearcher(g))
    /\ \E out \in [Rows -> GreedyOutputs] :
          /\ OracleAllows(g, out)
          /\ oracle' = OracleAfter(g, out)
          /\ LET toks == [r \in Rows |-> ArgMax(out[r])]
                 ended == UpdateHasEnded(HasEndedOf(g), toks)
             IN /\ g_memory' = [g_memory EXCEPT ![g] =
                                   [r \in Rows |-> StepArgs(g, r)[2]]]
                /\ g_log_probs_lst' = [g_log_probs_lst EXCEPT ![g] =
                                          Append(@, MaskEnded(HasEndedOf(g), out))]
                /\ g_inp_tokens' = [g_inp_tokens EXCEPT ![g] = toks]
                /\ g_has_ended' = [g_has_ended EXCEPT ![g] = ended]
                /\ g_pc' = [g_pc EXCEPT ![g] =
                               IF \A r \in Rows : ended[r] THEN "top" ELSE "loop"]
    /\ UNCHANGED <<driver, cfgvars, beamvars, g_result, g_min_decode_ratio>>

\* the range of line 197 is exhausted
GreedyExitLoop(g) ==
    /\ driver = "greedy"
    /\ g_pc[g] = "loop"
    /\ Len(g_log_probs_lst[g]) >= GreedyDecodeSteps(GreedySearcher(g))
    /\ g_pc' = [g_pc EXCEPT ![g] = "top"]
    /\ UNCHANGED <<driver, cfgvars, beamvars, g_inp_tokens, g_memory, g_has_ended,
                   g_log_probs_lst, g_result, g_min_decode_ratio, oracle>>

\* lines 208-212: scores and predictions of one row over the executed steps
GreedyScores(lst, r) ==
    [t \in 1 .. Len(lst) |-> IF RowMax(lst[t][r]) = PosInf THEN 0 ELSE RowMax(lst[t][r])]
GreedyPredictions(lst, r) ==
    [t \in 1 .. Len(lst) |->
        IF RowMax(lst[t][r]) = PosInf THEN eos_index ELSE ArgMax(lst[t][r])]

\* _get_top_prediction, lines 249-258: the index of the first eos, or max_length
FirstEos(pred) ==
    IF \E t \in 1 .. Len(pred) : pred[t] = eos_index
    THEN (CHOOSE t \in 1 .. Len(pred) :
             /\ pred[t] = eos_index
             /\ \A u \in 1 .. (t - 1) : pred[u] # eos_index) - 1
    ELSE Len(pred)

\* the index of the first eos reported as it is
GreedyLengthNumerator_NoOffset(pred) == FirstEos(pred)

\* line 268: (top_lengths - 1).abs(), top_lengths being the index of the first eos
GreedyLengthNumerator(pred) == Abs(FirstEos(pred) - 1)

_get_top_prediction(lst) ==
    [r \in Rows |->
        [hyp |-> GreedyPredictions(lst, r),
         length_num |-> GreedyLengthNumerator(GreedyPredictions(lst, r)),
         length_den |-> Len(lst),
         scores |-> GreedyScores(lst, r),
         log_probs |-> [t \in 1 .. Len(lst) |-> lst[t][r]]]]

\* lines 208-224
GreedyTop(g) ==
    /\ driver = "greedy"
    /\ g_pc[g] = "top"
    /\ Len(g_log_probs_lst[g]) > 0
    /\ g_result' = [g_result EXCEPT ![g] = _get_top_prediction(g_log_probs_lst[g])]
    /\ g_pc' = [g_pc EXCEPT ![g] = "done"]
    /\ UNCHANGED <<driver, cfgvars, beamvars, g_inp_tokens, g_memory, g_has_ended,
                   g_log_probs_lst, g_min_decode_ratio, oracle>>

\* torch.stack of an empty list raises at line 208
GreedyTopEmpty(g) ==
    /\ driver = "greedy"
    /\ g_pc[g] = "top"
    /\ Len(g_log_probs_lst[g]) = 0
    /\ g_pc' = [g_pc EXCEPT ![g] = "error"]
    /\ UNCHANGED <<driver, cfgvars, beamvars, g_inp_tokens, g_memory, g_has_ended,
                   g_log_probs_lst, g_result, g_min_decode_ratio, oracle>>

\* ------------------------------------------------- construction and start
\* ------------------------------------------------- S2SBeamSearcher.__init__
\* the length check looking at the weight alone
LengthConflict_IgnoresNormalization(a) == a.length_weight > 0

\* line 422: length_normalization and self.scorer.weights["length"] > 0.0
LengthConflict(a) == a.length_normalization /\ a.length_weight > 0

\* the blank index compared with eos only
IndexCollision_BlankAgainstEosOnly(a) == a.blank = a.eos

\* line 434: len({bos_index, eos_index, blank_index}) < 3
IndexCollision(a) == Cardinality({a.bos, a.eos, a.blank}) < 3

LengthError == "Length normalization is not compatible with length rewarding."
IndexError == "Set blank, eos and bos to different indexes for joint ATT/CTC or CTC decoding"
NotRaised == "none"

\* lines 416-439: the checks in their order, then the two weights
Constructed(a) ==
    IF a.scorer /\ LengthConflict(a)
    THEN [raised |-> LengthError, ctc_weight |-> 0, attn_weight |-> WeightOne]
    ELSE IF a.scorer /\ a.ctc_weight > 0 /\ IndexCollision(a)
    THEN [raised |-> IndexError, ctc_weight |-> 0, attn_weight |-> WeightOne]
    ELSE IF a.scorer /\ a.ctc_weight > 0
    THEN [raised |-> NotRaised, ctc_weight |-> a.ctc_weight,
          attn_weight |-> WeightOne - a.ctc_weight]
    ELSE [raised |-> NotRaised, ctc_weight |-> 0, attn_weight |-> WeightOne]

\* the constructor has not run yet
NotConstructed == [raised |-> "pending", ctc_weight |-> 0, attn_weight |-> 0]

\* scorer=None: no weights and no blank index are given
NoScorerArgs(ln) ==
    [scorer |-> FALSE, length_normalization |-> ln, length_weight |-> 0,
     ctc_weight |-> 0, bos |-> bos_index, eos |-> eos_index, blank |-> 0]

\* a searcher built without a scorer on a backend that may or may not
\* override permute_mem, its fields as init_beam_search_data leaves them
\* for a batch of B elements (line 938)
SearcherOf(B, ln, pm) ==
    /\ ctor_args = NoScorerArgs(ln)
    /\ ctor_result = Constructed(NoScorerArgs(ln))
    /\ permute_mem_implemented = pm
    /\ self_batch_size = B

\* every beam seeded with score 0
init_hypotheses_AllZero(B, K) == [i \in 0 .. (B * K - 1) |-> 0]

\* init_hypotheses: -inf everywhere, then 0 at beam_offset
init_hypotheses(B, K) == [i \in 0 .. (B * K - 1) |-> IF i % K = 0 THEN 0 ELSE NegInf]

\* an encoder output of RatioDen frames decoded with the ratios mn / RatioDen
\* and mx / RatioDen on a backend without a cap
EncoderOf(mn, mx) ==
    [backend |-> "base", encoder_len |-> RatioDen, min_decode_ratio |-> mn,
     max_decode_ratio |-> mx, max_length |-> 0]

\* the fields and locals __init__ and init_beam_search_data set
InitFields(B, K, T, V, mn, mx, ln, et, as) ==
    /\ batch_size = B
    /\ beam_size = K
    /\ topk = T
    /\ n_out = V
    /\ min_decode_steps = mn
    /\ max_decode_steps = mx
    /\ length_normalization = ln
    /\ using_eos_threshold = et
    /\ using_max_attn_shift = as
    /\ step = 0
    /\ alived_seq = [i \in 0 .. (B * K - 1) |-> <<>>]
    /\ alived_log_probs = [i \in 0 .. (B * K - 1) |-> <<>>]
    /\ sequence_scores = init_hypotheses(B, K)
    /\ inp_tokens = [i \in 0 .. (B * K - 1) |-> bos_index]
    /\ memory = [i \in 0 .. (B * K - 1) |-> <<>>]
    /\ prev_attn_peak = [i \in 0 .. (B * K - 1) |-> 0]
    /\ log_probs = [i \in 0 .. (B * K - 1) |-> [k \in 1 .. V |-> 0]]
    /\ log_probs_clone = [i \in 0 .. (B * K - 1) |-> [k \in 1 .. V |-> 0]]
    /\ attn_peak = [i \in 0 .. (B * K - 1) |-> 0]
    /\ scores = [i \in 0 .. (B * K - 1) |-> 0]
    /\ scores_den = 0
    /\ candidates = <<>>
    /\ stage_order = <<>>
    /\ selected_masked = [i \in 0 .. (B * K - 1) |-> FALSE]
    /\ predecessors = [i \in 0 .. (B * K - 1) |-> i]
    /\ eos_hyps_and_log_probs_scores = [b \in 0 .. (B - 1) |-> <<>>]
    /\ result = <<>>

\* __init__ and init_beam_search_data
InitHyps(B, K, T, V, mn, mx, ln, et, as) ==
    /\ InitFields(B, K, T, V, mn, mx, ln, et, as)
    /\ length_args = EncoderOf(mn, mx)

GreedyIdle ==
    /\ g_pc = [g \in Runs |-> "idle"]
    /\ g_inp_tokens = <<>>
    /\ g_memory = <<>>
    /\ g_has_ended = <<>>
    /\ g_log_probs_lst = [g \in Runs |-> <<>>]
    /\ g_result = [g \in Runs |-> <<>>]
    /\ g_min_decode_ratio = [g \in Runs |-> 0]
    /\ oracle = <<>>

\* a beam search on a batch of B elements
InitSearch(B, K, T, V, mn, mx, ln, et, as, pm) ==
    /\ driver = "beam"
    /\ pc = "loop"
    /\ InitHyps(B, K, T, V, mn, mx, ln, et, as)
    /\ SearcherOf(B, ln, pm)
    /\ GreedyIdle

\* a beam search on a backend that overrides permute_mem
InitWith(B, K, T, V, mn, mx, ln, et, as) ==
    InitSearch(B, K, T, V, mn, mx, ln, et, as, TRUE)

\* two greedy searches on the same batch of B elements, lines 176-196
InitGreedyRuns(B, V, mn, mx) ==
    /\ driver = "greedy"
    /\ pc = "idle"
    /\ InitHyps(B, 1, 1, V, mn, mx, FALSE, FALSE, FALSE)
    /\ SearcherOf(B, FALSE, TRUE)
    /\ g_pc = [g \in Runs |-> "loop"]
    /\ g_inp_tokens = [g \in Runs |-> [r \in 0 .. (B - 1) |-> bos_index]]
    /\ g_memory = [g \in Runs |-> [r \in 0 .. (B - 1) |-> <<>>]]
    /\ g_has_ended = [g \in Runs |-> [r \in 0 .. (B - 1) |-> FALSE]]
    /\ g_log_probs_lst = [g \in Runs |-> <<>>]
    /\ g_result = [g \in Runs |-> <<>>]
    /\ oracle = <<>>

\* two greedy searches by the same searcher
InitGreedyWith(B, V, mn, mx) ==
    /\ InitGreedyRuns(B, V, mn, mx)
    /\ g_min_decode_ratio = [g \in Runs |-> mn]

InitBeam ==
    \E B \in 1 .. MaxBatch, K \in 1 .. MaxBeam, mn \in 0 .. MaxMinSteps,
       mx \in 0 .. MaxSteps, ln \in BOOLEAN, et \in BOOLEAN, as \in BOOLEAN :
          \E T \in 1 .. K :
             /\ as => B = 1
             /\ InitWith(B, K, T, 3, mn, mx, ln, et, as)

InitGreedy ==
    \E B \in 1 .. MaxBatch, mn \in 0 .. MaxMinSteps, mx \in 0 .. MaxSteps :
        InitGreedyWith(B, 3, mn, mx)

Init == InitBeam \/ InitGreedy

NextBeam == SearchStep \/ ExitLoop \/ Fill \/ FillUnbound \/ Rank

NextGreedy == \E g \in Runs : GreedyStep(g) \/ GreedyExitLoop(g) \/ GreedyTop(g) \/ GreedyTopEmpty(g)

Next == NextBeam \/ NextGreedy

Spec == Init /\ [][Next]_vars

\* two greedy searches by searchers that have their own min_decode_ratio each
\* and are the same otherwise
InitGreedyPair ==
    \E B \in 1 .. MaxBatch, mn \in 0 .. MaxMinSteps, other \in 0 .. MaxMinSteps,
       mx \in 0 .. MaxSteps :
          /\ InitGreedyRuns(B, 3, mn, mx)
          /\ g_min_decode_ratio = [g \in Runs |-> IF g = 1 THEN mn ELSE other]

SpecGreedyPair == InitGreedyPair /\ [][NextGreedy]_vars

\* the scenario of a 5-token vocabulary, one batch element and two beams
InitScenario ==
    \E T \in 1 .. 2, mn \in 0 .. MaxMinSteps, mx \in 0 .. MaxSteps,
       ln \in BOOLEAN, et \in BOOLEAN :
          InitWith(1, 2, T, 5, mn, mx, ln, et, FALSE)

SpecScenario == InitScenario /\ [][NextBeam]_vars

\* searches of one batch element that run up to MaxLongSteps steps
InitLong ==
    \E K \in 1 .. MaxBeam, mx \in 0 .. MaxLongSteps, ln \in BOOLEAN :
        InitWith(1, K, 1, 3, 0, mx, ln, FALSE, FALSE)

SpecLong == InitLong /\ [][NextBeam]_vars

\* searches of one batch element that run up to MaxLongSteps steps, with and
\* without the attention-shift constraint
InitConstrainedLong ==
    \E K \in 1 .. MaxBeam, mx \in 0 .. MaxLongSteps, ln \in BOOLEAN, as \in BOOLEAN :
        InitWith(1, K, 1, 3, 0, mx, ln, FALSE, as)

SpecConstrainedLong == InitConstrainedLong /\ [][NextBeam]_vars

\* one-step searches with beams up to MaxSeedBeam over two or three tokens
InitSeed ==
    \E B \in 1 .. MaxBatch, K \in 1 .. MaxSeedBeam, V \in 2 .. 3, mx \in 0 .. 1,
       et \in BOOLEAN :
          InitWith(B, K, 1, V, 0, mx, FALSE, et, FALSE)

SpecSeed == InitSeed /\ [][NextBeam]_vars

\* searches on a backend that overrides permute_mem or inherits the base method
InitBackend ==
    \E B \in 1 .. MaxBatch, K \in 1 .. MaxBeam, mx \in 0 .. MaxSteps, pm \in BOOLEAN :
        InitSearch(B, K, 1, 3, 0, mx, FALSE, FALSE, FALSE, pm)

NextBackend == SearchStep \/ SearchStepRaises \/ ExitLoop \/ Fill \/ FillUnbound \/ Rank

SpecBackend == InitBackend /\ [][NextBackend]_vars

\* a search during which another invocation on the same searcher starts
InitShared ==
    \E B \in 1 .. MaxBatch, K \in 1 .. MaxBeam, mx \in 0 .. MaxSteps :
        InitWith(B, K, 1, 3, 0, mx, FALSE, FALSE, FALSE)

NextShared ==
    \/ NextBeam
    \/ init_beam_search_data_Other
    \/ SearchStepMisshapen \/ FillMisshapen \/ RankMisshapen

SpecShared == InitShared /\ [][NextShared]_vars

\* ------------------------------------------------- the decode step bounds
LengthArgs ==
    [backend : {"base"}, encoder_len : 0 .. MaxEncLen, min_decode_ratio : 0 .. MaxRatio,
     max_decode_ratio : 0 .. MaxRatio, max_length : {0}] \cup
    [backend : {"whisper"}, encoder_len : 0 .. MaxEncLen, min_decode_ratio : 0 .. MaxRatio,
     max_decode_ratio : 0 .. MaxRatio, max_length : PrefixTokens .. (PrefixTokens + MaxCap)]

InitBounds ==
    /\ driver = "bounds"
    /\ pc = "idle"
    /\ InitFields(1, 1, 1, 3, 0, 0, FALSE, FALSE, FALSE)
    /\ SearcherOf(1, FALSE, TRUE)
    /\ GreedyIdle
    /\ length_args \in LengthArgs

\* lines 972-982 of init_beam_search_data, lines 188-194 of the greedy forward
SetDecodeSteps ==
    /\ driver = "bounds"
    /\ pc = "idle"
    /\ min_decode_steps' = DecodeSteps(length_args).min
    /\ max_decode_steps' = DecodeSteps(length_args).max
    /\ pc' = "bounded"
    /\ UNCHANGED <<driver, batch_size, beam_size, topk, n_out, length_normalization,
                   using_eos_threshold, using_max_attn_shift, ctor_args, ctor_result,
                   permute_mem_implemented, self_batch_size, length_args, step, hypvars,
                   eos_hyps_and_log_probs_scores, result, greedyvars>>

SpecBounds == InitBounds /\ [][SetDecodeSteps]_vars

\* ------------------------------------------------- the eos-threshold stage alone
\* the values a row of log-probabilities may hold when it reaches the stage:
\* 0 (probability 1), two lower values, and the sentinel left by a stage before
ThresholdRowValues == {0, -10, -20, minus_inf}

InitThreshold ==
    /\ driver = "threshold"
    /\ pc = "idle"
    /\ \E et \in BOOLEAN : InitHyps(1, 1, 1, 3, 0, 0, FALSE, et, FALSE)
    /\ SearcherOf(1, FALSE, TRUE)
    /\ GreedyIdle

\* the row that search_step hands to _eos_threshold_step, line 1194
ThresholdRow ==
    /\ driver = "threshold"
    /\ pc = "idle"
    /\ \E row \in [1 .. n_out -> ThresholdRowValues] :
          log_probs_clone' = [i \in Beams |-> row]
    /\ pc' = "row"
    /\ UNCHANGED <<driver, cfgvars, step, alived_seq, alived_log_probs, sequence_scores,
                   inp_tokens, memory, prev_attn_peak, attn_peak, log_probs, scores,
                   scores_den, candidates, predecessors, stage_order, selected_masked,
                   eos_hyps_and_log_probs_scores, result, greedyvars>>

\* _eos_threshold_step applied to that row, lines 634-652
ThresholdStage ==
    /\ driver = "threshold"
    /\ pc = "row"
    /\ log_probs' = [i \in Beams |-> _eos_threshold_step(log_probs_clone[i])]
    /\ pc' = "masked"
    /\ UNCHANGED <<driver, cfgvars, step, alived_seq, alived_log_probs, sequence_scores,
                   inp_tokens, memory, prev_attn_peak, attn_peak, log_probs_clone, scores,
                   scores_den, candidates, predecessors, stage_order, selected_masked,
                   eos_hyps_and_log_probs_scores, result, greedyvars>>

NextThreshold == ThresholdRow \/ ThresholdStage

SpecThreshold == InitThreshold /\ [][NextThreshold]_vars

\* ------------------------------------------------- construction
\* the constructor called with a scorer or without one
ConstructorArgs ==
    { NoScorerArgs(ln) : ln \in BOOLEAN } \cup
    [scorer : {TRUE}, length_normalization : BOOLEAN,
     length_weight : (-MaxLengthWeight) .. MaxLengthWeight,
     ctc_weight : 0 .. WeightOne,
     bos : 0 .. MaxIndex, eos : 0 .. MaxIndex, blank : 0 .. MaxIndex]

InitConstruct ==
    /\ driver = "construct"
    /\ pc = "idle"
    /\ InitHyps(1, 1, 1, 3, 0, 0, FALSE, FALSE, FALSE)
    /\ GreedyIdle
    /\ ctor_args \in ConstructorArgs
    /\ ctor_result = NotConstructed
    /\ permute_mem_implemented = TRUE
    /\ self_batch_size = 1

\* S2SBeamSearcher.__init__, lines 387-439
__init__ ==
    /\ driver = "construct"
    /\ ctor_result = NotConstructed
    /\ ctor_result' = Constructed(ctor_args)
    /\ UNCHANGED <<driver, searchcfg, ctor_args, permute_mem_implemented,
                   self_batch_size, length_args, beamvars, greedyvars>>

SpecConstruct == InitConstruct /\ [][__init__]_vars

\* =================================================================== claims
Last(seq) == seq[Len(seq)]
EndsWithEos(seq) == Len(seq) > 0 /\ Last(seq) = eos_index
Pool == eos_hyps_and_log_probs_scores

\* C1: after any number of search steps and after the forced fill, every
\* batch element's completed pool holds at most beam_size entries.
C1_PoolWithinCapacity == \A b \in Batches : Len(Pool[b]) <= beam_size

\* a pool that held an earlier eos hypothesis was offered all beams by the
\* forced fill and took only the free slot
C1_Witness ==
    /\ pc = "rank" /\ beam_size = 2
    /\ \E b \in Batches :
          /\ Len(Pool[b]) = beam_size
          /\ EndsWithEos(Pool[b][1].hyp) /\ Len(Pool[b][1].hyp) < step
          /\ Len(Pool[b][2].hyp) = step /\ ~EndsWithEos(Pool[b][2].hyp)

\* C2: after every search step the memory and the attention-peak history at
\* beam index i are those of the beam whose sequence beam i extends: the
\* memory, tagged with the tokens fed to the model, is bos followed by the
\* sequence at i without its last token, and the peak history at i is the
\* peak computed for the predecessor of i.
C2_MemoryFollowsSequence ==
    step > 0 =>
        \A i \in Beams :
            /\ memory[i] = <<bos_index>> \o SubSeq(alived_seq[i], 1, Len(alived_seq[i]) - 1)
            /\ using_max_attn_shift => prev_attn_peak[i] = attn_peak[predecessors[i]]

\* two steps ran, a beam was routed from another index, and the routing
\* mattered for both kinds of memory
C2_Witness ==
    /\ step = 2 /\ using_max_attn_shift
    /\ \E i \in Beams :
          /\ predecessors[i] # i
          /\ attn_peak[i] # attn_peak[predecessors[i]]
          /\ alived_seq[i][1] # alived_seq[CHOOSE j \in Beams : j # i][1]

C8_SearchNeverFails == pc # "error"

AllPoolsFull == \A b \in Batches : Len(Pool[b]) = beam_size
BeamTerminated == pc \in {"done", "error"}
BeamMeasure ==
    (max_decode_steps - step)
    + (CASE pc = "loop" -> 3 [] pc = "fill" -> 2 [] pc = "rank" -> 1 [] OTHER -> 0)

\* C5: the beam-search loop executes at most max_decode_steps search steps and
\* no step once every pool holds beam_size entries, and the search always
\* terminates: every step of the search decreases a bounded measure and the
\* search is never stuck before it has returned or raised.
C5_LoopBoundedAndTerminates ==
    /\ [](driver = "beam" =>
            /\ step <= max_decode_steps
            /\ BeamMeasure >= 0
            /\ BeamTerminated \/ ENABLED NextBeam)
    /\ [][driver = "beam" =>
            /\ step' # step => (step' = step + 1 /\ step < max_decode_steps /\ ~AllPoolsFull)
            /\ BeamMeasure' < BeamMeasure]_vars

\* the loop was left by the break, before the step limit
C5_Witness == pc = "fill" /\ AllPoolsFull /\ step < max_decode_steps /\ step > 0

\* the scenario's premise, read from the pool: the first entry was recorded at
\* step 0, is eos alone, and its log-probability is the maximum of its row
ScenarioEosBestAtStep0 ==
    /\ driver = "beam" /\ batch_size = 1 /\ beam_size = 2 /\ n_out = 5
    /\ Len(Pool[0]) >= 1
    /\ Pool[0][1].hyp = <<eos_index>>
    /\ Pool[0][1].log_probs = <<At(RowEosBest, eos_index)>>

\* C6 as claimed: in the scenario the search terminates at step 1, not at the
\* maximum step, with the hypothesis of length 1 that contains only eos.
C6_TerminatesAtStepOne ==
    (ScenarioEosBestAtStep0 /\ pc = "done") =>
        /\ step = 1
        /\ result[1][1].n = 1
        /\ result[1][1].hyp[1] = eos_index

\* C6 as amended: step 0 records the hypothesis that holds only eos, which
\* leaves the pool one entry short of beam_size = 2; the search goes on until
\* the pool is full or max_decode_steps steps have run, returns after step 1
\* only when max_decode_steps = 1, and ranks two completed hypotheses.
C6_ContinuesUntilPoolFull ==
    /\ (driver = "beam" /\ batch_size = 1 /\ beam_size = 2 /\ n_out = 5 /\ step = 1
        /\ pc = "loop" /\ log_probs[0] = RowEosBest)
          => /\ Pool[0] = << [hyp |-> <<eos_index>>,
                              log_probs |-> <<At(RowEosBest, eos_index)>>,
                              final_scores |-> At(RowEosBest, eos_index),
                              den |-> 1] >>
             /\ sequence_scores[0] = NegInf
             /\ ~AllPoolsFull
    /\ (ScenarioEosBestAtStep0 /\ pc \in {"fill", "rank", "done"})
          => /\ step = max_decode_steps \/ AllPoolsFull
             /\ step = 1 <=> max_decode_steps = 1
    /\ (ScenarioEosBestAtStep0 /\ pc \in {"rank", "done"}) => Len(Pool[0]) = 2

\* the scenario ran past step 1 and returned
C6_Witness == ScenarioEosBestAtStep0 /\ pc = "done" /\ step = 2

\* C9: two greedy searches with identical encoder states, lengths, parameters
\* and the same deterministic step function return identical token
\* sequences, lengths and scores.
C9_GreedyDeterministic ==
    /\ (g_pc[1] = "done" /\ g_pc[2] = "done") => g_result[1] = g_result[2]
    /\ (g_pc[1] \in {"done", "error"} /\ g_pc[2] \in {"done", "error"}) => g_pc[1] = g_pc[2]

\* both searches returned after two steps in which a row ended early
C9_Witness ==
    /\ g_pc[1] = "done" /\ g_pc[2] = "done" /\ batch_size = 2
    /\ Len(g_result[1][0].hyp) = 2
    /\ \E r \in Rows : g_result[2][r].hyp[1] = eos_index
    /\ \E r \in Rows : g_result[2][r].hyp[1] # eos_index

\* the row of beam i as it enters the eos-threshold stage of the step just taken
RowBeforeThreshold(i) ==
    _set_eos_minus_inf_step(
        _max_attn_shift_step(attn_peak'[i], prev_attn_peak[i], log_probs_clone'[i]),
        step, min_decode_steps)

EosChosenFor(i) == \E j \in Beams : predecessors'[j] = i /\ inp_tokens'[j] = eos_index

\* C10 as claimed: with using_eos_threshold on, for every beam whose eos
\* log-probability does not exceed eos_threshold times the maximum of its row,
\* the eos log-probability is replaced by minus_inf and eos is not among the
\* tokens chosen by top-K selection at that step.
C10_MaskedEosNeverChosen ==
    [][(driver = "beam" /\ step' = step + 1 /\ using_eos_threshold) =>
          \A i \in Beams :
              ~_check_eos_threshold(RowBeforeThreshold(i)) =>
                  /\ At(log_probs'[i], eos_index) = minus_inf
                  /\ ~EosChosenFor(i)]_vars

\* the candidates of beam i's batch element that score above beam i's eos
\* candidate once its log-probability is minus_inf
ScoringAboveMaskedEos(i) ==
    {c \in 0 .. (beam_size * n_out - 1) :
        CandScore(log_probs', BatchOf(i), c) > FAdd(sequence_scores[i], minus_inf)}

\* C10 as amended: the eos log-probability is replaced by minus_inf; and eos
\* is not chosen for the beam by top-K selection at that step whenever at
\* least beam_size candidates of the beam's batch element score above the
\* beam's eos candidate.
C10_MaskedEosNotChosenWhenOutscored ==
    [][(driver = "beam" /\ step' = step + 1 /\ using_eos_threshold) =>
          \A i \in Beams :
              ~_check_eos_threshold(RowBeforeThreshold(i)) =>
                  /\ At(log_probs'[i], eos_index) = minus_inf
                  /\ Cardinality(ScoringAboveMaskedEos(i)) >= beam_size
                        => ~EosChosenFor(i)]_vars

\* after a second step in which the threshold masked the eos of a live beam
\* whose other candidates were chosen
C10_Witness ==
    /\ driver = "beam" /\ using_eos_threshold /\ min_decode_steps = 0 /\ step = 2
    /\ \E i \in Beams :
          /\ log_probs_clone[i] = RowOf(RowEosMasked)
          /\ At(log_probs[i], eos_index) = minus_inf
          /\ \E j \in Beams : predecessors[j] = i /\ sequence_scores[j] # NegInf

\* the sum that selection computed for beam i in the step just taken
SumOfChosen(i) ==
    FAdd(sequence_scores[predecessors'[i]],
         At(log_probs'[predecessors'[i]], inp_tokens'[i]))

\* C12 as claimed: after every selection step each surviving beam's stored
\* cumulative score equals its predecessor's cumulative score plus the
\* log-probability of the chosen candidate, with length_normalization on or
\* off.
C12_StoredScoreIsSum ==
    [][(driver = "beam" /\ step' = step + 1) =>
          \A i \in Beams :
              inp_tokens'[i] # eos_index => sequence_scores'[i] = SumOfChosen(i)]_vars

\* C12 as amended: the stored score equals that sum when length_normalization
\* is off or (step + 1) is a power of two; otherwise it is the rounded
\* quotient multiplied back, within half of (step + 1) units in the last
\* place of the sum.
C12_StoredScoreIsSumUpToRounding ==
    [][(driver = "beam" /\ step' = step + 1) =>
          \A i \in Beams :
              inp_tokens'[i] # eos_index =>
                  /\ (~length_normalization \/ step' \in {1, 2, 4, 8} \/ SumOfChosen(i) = NegInf)
                        => sequence_scores'[i] = SumOfChosen(i)
                  /\ SumOfChosen(i) # NegInf =>
                        /\ sequence_scores'[i] # NegInf
                        /\ 2 * Abs(sequence_scores'[i] - SumOfChosen(i)) <= step']_vars

\* a third step with length_normalization on stored a score that is not the sum
C12_Witness ==
    /\ driver = "beam" /\ length_normalization /\ step = 3
    /\ \E i \in Beams :
          /\ inp_tokens[i] # eos_index /\ scores[i] # NegInf
          /\ sequence_scores[i] # scores[i]

\* pool entries of batch element b whose raw cumulative score is that of the
\* first returned hypothesis, but whose length is not
EqualRawOtherLength(b) ==
    {k \in 1 .. Len(Pool[b]) :
        /\ Pool[b][k].final_scores = result[b + 1][1].score
        /\ Pool[b][k].final_scores # NegInf
        /\ Len(Pool[b][k].hyp) # result[b + 1][1].n}

\* C11 as claimed: with length_normalization on, between two completed paths
\* of different lengths and equal raw cumulative score, ranking uses the score
\* divided by (step + 1) and prefers the shorter path.
C11_PrefersShorterAtEqualRawScore ==
    (pc = "done" /\ length_normalization) =>
        \A b \in Batches : \A k \in EqualRawOtherLength(b) :
            result[b + 1][1].n < Len(Pool[b][k].hyp)

\* C11 as amended: with length_normalization on every returned score is the
\* cumulative score divided by the hypothesis length (step + 1), the returned
\* ranks are in non-increasing order of that quotient, and between two paths
\* of different lengths and equal raw cumulative score (log-probabilities are
\* negative) ranking prefers the longer path.
C11_PrefersLongerAtEqualRawScore ==
    (pc = "done" /\ length_normalization) =>
        \A b \in Batches :
            /\ \A r \in 1 .. Len(result[b + 1]) : result[b + 1][r].score_den = result[b + 1][r].n
            /\ \A r1, r2 \in 1 .. Len(result[b + 1]) :
                  (r1 < r2 /\ result[b + 1][r2].score # NegInf) =>
                      /\ result[b + 1][r1].score # NegInf
                      /\ result[b + 1][r1].score * result[b + 1][r2].score_den
                            >= result[b + 1][r2].score * result[b + 1][r1].score_den
            /\ \A k \in EqualRawOtherLength(b) :
                  result[b + 1][1].n > Len(Pool[b][k].hyp)

\* ranking chose between a hypothesis of one token and one of two tokens with
\* the same raw cumulative score
C11_Witness ==
    /\ pc = "done" /\ length_normalization
    /\ \E b \in Batches : EqualRawOtherLength(b) # {}

\* the seeding of init_hypotheses, which selection never changes before step 0
SeededAtStart ==
    (driver = "beam" /\ step = 0) =>
        \A i \in Beams :
            sequence_scores[i] = IF i = beam_offset(BatchOf(i)) THEN 0 ELSE NegInf

\* step 0 selected, for every batch element, beam_size distinct continuations
\* of the first beam
DistinctContinuationsOfFirstBeam ==
    \A i \in Beams :
        /\ predecessors[i] = beam_offset(BatchOf(i))
        /\ \A j \in BeamsOf(BatchOf(i)) : j # i => inp_tokens[j] # inp_tokens[i]

\* C13 as claimed: at initialization the first beam of each batch element has
\* score 0 and every other beam -inf; at step 0 every selected candidate has
\* that first beam as its predecessor and the beam_size tokens selected for a
\* batch element are pairwise distinct.
C13_SeedingSelectsDistinctContinuations ==
    /\ SeededAtStart
    /\ (driver = "beam" /\ step = 1) => DistinctContinuationsOfFirstBeam

\* C13 as amended: the same, provided the vocabulary has at least beam_size
\* tokens.
C13_SeedingSelectsDistinctWhenVocabularySuffices ==
    /\ SeededAtStart
    /\ (driver = "beam" /\ step = 1 /\ n_out >= beam_size) => DistinctContinuationsOfFirstBeam

\* step 0 ran with three beams over three tokens
C13_Witness ==
    /\ driver = "beam" /\ step = 1 /\ beam_size = 3 /\ n_out = 3 /\ batch_size = 2
    /\ DistinctContinuationsOfFirstBeam

\* the candidates of batch element b that score above -inf in the step just taken
AboveNegInf(b) ==
    {c \in 0 .. (beam_size * n_out - 1) : CandScore(log_probs', b, c) # NegInf}

\* no beam of batch element b extends a beam whose cumulative score is -inf
NoEndedPredecessor(b) ==
    \A j \in BeamsOf(b) : sequence_scores[predecessors'[j]] # NegInf

EosBeamsBlocked ==
    /\ DOMAIN sequence_scores' = DOMAIN sequence_scores
    /\ \A i \in Beams : inp_tokens'[i] = eos_index => sequence_scores'[i] = NegInf

ScoreAtLeast(s1, d1, s2, d2) ==
    IF s2 = NegInf THEN TRUE
    ELSE IF s1 = NegInf THEN FALSE
    ELSE s1 * d2 >= s2 * d1

\* what is returned at rank r for batch element b is pool entry k of b
ReturnedFrom(b, r, k) ==
    LET e == result[b + 1][r]
        q == Pool[b][k]
    IN /\ e.n = Len(q.hyp)
       /\ SubSeq(e.hyp, 1, e.n) = q.hyp
       /\ e.length_num = Abs(Len(q.hyp) - 1)
       /\ e.score = q.final_scores /\ e.score_den = q.den
       /\ SubSeq(e.log_probs, 1, e.n) = q.log_probs

\* C19: for every batch element the topk hypotheses returned by ranking are
\* entries of that element's own completed pool, in non-increasing final
\* score, the first being a maximum-score entry of the pool; the sequence,
\* length, score and log-probabilities at one rank come from one pool entry.
C19_RankingReturnsOwnPoolEntries ==
    pc = "done" =>
        \A b \in Batches :
            /\ Len(result[b + 1]) = topk
            /\ \A r \in 1 .. topk : \E k \in 1 .. Len(Pool[b]) : ReturnedFrom(b, r, k)
            /\ \A r1, r2 \in 1 .. topk :
                  r1 < r2 => ScoreAtLeast(result[b + 1][r1].score, result[b + 1][r1].score_den,
                                          result[b + 1][r2].score, result[b + 1][r2].score_den)
            /\ \A k \in 1 .. Len(Pool[b]) :
                  ScoreAtLeast(result[b + 1][1].score, result[b + 1][1].score_den,
                               Pool[b][k].final_scores, Pool[b][k].den)

\* two hypotheses were returned for each of two batch elements whose pools
\* differ, the better one not being the first entry of its pool
C19_Witness ==
    /\ pc = "done" /\ batch_size = 2 /\ topk = 2
    /\ Pool[0] # Pool[1]
    /\ \E b \in Batches :
          /\ ReturnedFrom(b, 1, 2)
          /\ ~ScoreAtLeast(Pool[b][1].final_scores, Pool[b][1].den,
                           Pool[b][2].final_scores, Pool[b][2].den)

\* an output of n tokens followed by eos: eos occurs only as the last token
TokensThenEos(seq) ==
    /\ EndsWithEos(seq)
    /\ \A t \in 1 .. (Len(seq) - 1) : seq[t] # eos_index

\* C20: the beam driver's relative length follows the greedy driver's
\* convention: for the same output (n tokens followed by eos) the beam
\* driver's numerator abs(len - 1) equals the greedy driver's numerator
\* abs(eos_position - 1).  Stated on every output a search returns: the
\* numerator the driver reported is the one the other driver's convention
\* gives for that output.
C20_SameLengthNumerator ==
    /\ pc = "done" =>
          \A b \in Batches : \A r \in 1 .. Len(result[b + 1]) :
              LET e == result[b + 1][r]
              IN TokensThenEos(SubSeq(e.hyp, 1, e.n)) =>
                    e.length_num = GreedyLengthNumerator(SubSeq(e.hyp, 1, e.n))
    /\ \A g \in Runs : g_pc[g] = "done" =>
          \A r \in Rows :
              LET e == g_result[g][r]
              IN TokensThenEos(e.hyp) => e.length_num = BeamLengthNumerator(e.hyp)

\* C16: constructing a beam searcher with a scorer, length normalisation on
\* and a nonzero length-reward weight raises the configuration error and
\* yields no searcher; with length normalisation off or a zero weight the
\* length check raises nothing.
C16_LengthConflictRaisedForNonzeroWeight ==
    (driver = "construct" /\ ctor_result # NotConstructed) =>
        /\ (ctor_args.scorer /\ ctor_args.length_normalization
               /\ ctor_args.length_weight # 0) => ctor_result.raised = LengthError
        /\ (~ctor_args.length_normalization \/ ctor_args.length_weight = 0)
               => ctor_result.raised # LengthError

\* C16 as the code has it: the error is raised for a positive weight, and
\* for no other
C16_LengthConflictRaisedForPositiveWeight ==
    (driver = "construct" /\ ctor_result # NotConstructed) =>
        /\ (ctor_args.scorer /\ ctor_args.length_normalization
               /\ ctor_args.length_weight > 0) => ctor_result.raised = LengthError
        /\ (~ctor_args.length_normalization \/ ctor_args.length_weight <= 0)
               => ctor_result.raised # LengthError

\* the constructor raised the length error on a scorer with a positive weight
C16_Witness ==
    /\ driver = "construct" /\ ctor_result.raised = LengthError
    /\ ctor_args.scorer /\ ctor_args.length_normalization /\ ctor_args.length_weight > 0

\* the reserved indices clash while the CTC scorer is active
CtcIndexClash ==
    /\ ctor_args.scorer /\ ctor_args.ctc_weight > 0
    /\ (ctor_args.bos = ctor_args.eos \/ ctor_args.bos = ctor_args.blank
          \/ ctor_args.eos = ctor_args.blank)

\* C17: construction raises the index-collision error if and only if bos, eos
\* and blank are not pairwise distinct while the CTC scorer is active with a
\* positive weight; blank equal to bos or to eos is then always rejected.
C17_IndexCollisionIffClash ==
    (driver = "construct" /\ ctor_result # NotConstructed) =>
        /\ (ctor_result.raised = IndexError) <=> CtcIndexClash
        /\ (CtcIndexClash /\ ctor_args.blank \in {ctor_args.bos, ctor_args.eos})
               => ctor_result.raised # NotRaised

\* C17 as the code has it: the length check comes first, and a clash that
\* comes with a length conflict is reported as the length conflict
C17_IndexCollisionIffClashAndNoLengthConflict ==
    (driver = "construct" /\ ctor_result # NotConstructed) =>
        /\ (ctor_result.raised = IndexError) <=>
               (CtcIndexClash /\ ~(ctor_args.length_normalization
                                     /\ ctor_args.length_weight > 0))
        /\ (CtcIndexClash /\ ctor_args.blank \in {ctor_args.bos, ctor_args.eos})
               => ctor_result.raised # NotRaised

\* the constructor raised the index-collision error for a blank equal to bos
C17_Witness ==
    /\ driver = "construct" /\ ctor_result.raised = IndexError
    /\ ctor_args.blank = ctor_args.bos /\ ctor_args.bos # ctor_args.eos

\* the search is where init_beam_search_data left it
AtStartOfSearch ==
    /\ step = 0 /\ result = <<>>
    /\ \A i \in Beams : memory[i] = <<>> /\ alived_seq[i] = <<>>
    /\ \A b \in Batches : Pool[b] = <<>>

\* C18: a beam search on a backend without memory permutation raises at the
\* routing stage of the first step in which routing is exercised: it never
\* continues with unpermuted memory and never returns a result.
C18_MissingPermutationRaisesAtFirstRouting ==
    /\ [](~permute_mem_implemented => (AtStartOfSearch /\ pc # "done" /\ pc # "rank"))
    /\ [][(~permute_mem_implemented /\ pc = "loop" /\ max_decode_steps > 0)
             => pc' = "error"]_vars

\* the first step of a search on such a backend raised
C18_Witness ==
    /\ ~permute_mem_implemented /\ max_decode_steps > 0
    /\ pc = "error" /\ step = 0

\* what a search returns for batch element b are entries of b's own pool
ReturnsOwnPool(b) ==
    \A r \in 1 .. Len(result[b + 1]) : \E k \in 1 .. Len(Pool[b]) : ReturnedFrom(b, r, k)

\* C15: a beam search during which another invocation on the same searcher
\* starts, for a batch of another size, returns what it returns alone: it
\* fails only where it fails alone (no step to run), and what it returns for
\* a batch element are the ranked entries of that element's own pool.
C15_InterleavedInvocationReturnsAsAlone ==
    /\ pc = "error" => max_decode_steps = 0
    /\ pc = "done" => \A b \in Batches : ReturnsOwnPool(b)

\* a search of two batch elements returned, for the second element, a
\* hypothesis that its pool does not hold
C15_ForeignHypothesisReturned ==
    /\ pc = "done" /\ batch_size = 2 /\ ~ReturnsOwnPool(1)

\* the positions, counted from 0, at which a prediction holds eos
EosPositions(pred) == {t \in 0 .. (Len(pred) - 1) : pred[t + 1] = eos_index}

\* p is the least position of eos in the prediction, or L when there is none
IsFirstEosOrLength(pred, p) ==
    IF EosPositions(pred) = {} THEN p = Len(pred)
    ELSE p \in EosPositions(pred) /\ \A q \in EosPositions(pred) : p <= q

\* C21: for every row greedy search reports the length abs(p - 1) / L, L being
\* the number of executed decode steps and p the index of the first eos in
\* the row's predictions, or L when the row holds no eos.
C21_GreedyLengthIsAbsOfFirstEosMinusOne ==
    \A g \in Runs : g_pc[g] = "done" =>
        \A r \in Rows :
            /\ g_result[g][r].length_den = Len(g_log_probs_lst[g])
            /\ Len(g_result[g][r].hyp) = Len(g_log_probs_lst[g])
            /\ \E p \in 0 .. Len(g_log_probs_lst[g]) :
                  /\ IsFirstEosOrLength(g_result[g][r].hyp, p)
                  /\ g_result[g][r].length_num = Abs(p - 1)

\* a search of two steps reported a row whose first eos is at index 1 and a
\* row without eos
C21_Witness ==
    \E g \in Runs :
        /\ g_pc[g] = "done" /\ Len(g_log_probs_lst[g]) = 2
        /\ \E r1, r2 \in Rows :
              /\ g_result[g][r1].hyp[2] = eos_index /\ g_result[g][r1].hyp[1] # eos_index
              /\ g_result[g][r1].length_num = 0
              /\ EosPositions(g_result[g][r2].hyp) = {}
              /\ g_result[g][r2].length_num = 1

\* the predictions line 209-212 makes of the steps run g has executed
PredictionsSoFar(g, r) == GreedyPredictions(g_log_probs_lst[g], r)

\* every row of run g has emitted eos within its first t steps
AllRowsEndedBy(g, t) ==
    \A r \in Rows : \E u \in 1 .. t : PredictionsSoFar(g, r)[u] = eos_index

\* C28: greedy search stops after the first step at which every row has
\* emitted eos, or after max_decode_steps steps, whichever comes first; the
\* step function is never invoked more than max_decode_steps times.
C28_GreedyStopsAtAllEndedOrStepLimit ==
    \A g \in Runs : driver = "greedy" =>
        LET L == Len(g_log_probs_lst[g])
        IN /\ L <= max_decode_steps
           /\ \A t \in 0 .. (L - 1) : ~AllRowsEndedBy(g, t)
           /\ g_pc[g] = "loop" => ~AllRowsEndedBy(g, L)
           /\ g_pc[g] \in {"top", "done", "error"} =>
                  (AllRowsEndedBy(g, L) \/ L = max_decode_steps)

\* a run over two rows stopped after its first step, every row having
\* emitted eos, the step limit being higher
C28_Witness ==
    /\ driver = "greedy" /\ max_decode_steps = 2 /\ batch_size = 2
    /\ \E g \in Runs :
          g_pc[g] = "done" /\ Len(g_log_probs_lst[g]) = 1 /\ AllRowsEndedBy(g, 1)

\* C29: once a row has emitted eos, the prediction recorded for it at every
\* later step is eos and its recorded score at those steps is 0, whatever
\* the model outputs for the row afterwards.
C29_EndedRowHeldAtEosWithScoreZero ==
    \A g \in Runs : g_pc[g] = "done" =>
        \A r \in Rows : \A t \in 1 .. Len(g_result[g][r].hyp) :
            (\E u \in 1 .. (t - 1) : g_result[g][r].hyp[u] = eos_index) =>
                /\ g_result[g][r].hyp[t] = eos_index
                /\ g_result[g][r].scores[t] = 0

\* a row emitted eos in the first step, the model's best token for it in
\* the second step was another one, and the row is reported as eos with
\* score 0 at the second step
C29_Witness ==
    \E g \in Runs : \E r \in Rows :
        /\ g_pc[g] = "done" /\ Len(g_log_probs_lst[g]) = 2
        /\ g_result[g][r].hyp = <<eos_index, eos_index>>
        /\ g_result[g][r].scores[2] = 0 /\ g_result[g][r].scores[1] < 0
        /\ g_inp_tokens[g][r] # eos_index

\* round(n / d) of a product that is not negative, halves to the even neighbour
RoundOfProduct(n, d) ==
    LET q == n \div d
        r == n % d
    IN IF 2 * r < d THEN q
       ELSE IF 2 * r > d THEN q + 1
       ELSE IF q % 2 = 0 THEN q ELSE q + 1

\* C22: for backends without a hard cap the decode step bounds are
\* min_decode_steps = round(encoder_len * min_decode_ratio) and
\* max_decode_steps = round(encoder_len * max_decode_ratio), for every
\* encoder length and every ratio.
C22_DecodeStepsAreRoundedProducts ==
    (driver = "bounds" /\ pc = "bounded" /\ length_args.backend = "base") =>
        /\ min_decode_steps =
              RoundOfProduct(length_args.encoder_len * length_args.min_decode_ratio, RatioDen)
        /\ max_decode_steps =
              RoundOfProduct(length_args.encoder_len * length_args.max_decode_ratio, RatioDen)

\* C22 as the code has it: the products are truncated, not rounded
C22_DecodeStepsAreTruncatedProducts ==
    (driver = "bounds" /\ pc = "bounded" /\ length_args.backend = "base") =>
        /\ min_decode_steps * RatioDen <= length_args.encoder_len * length_args.min_decode_ratio
        /\ length_args.encoder_len * length_args.min_decode_ratio < (min_decode_steps + 1) * RatioDen
        /\ max_decode_steps * RatioDen <= length_args.encoder_len * length_args.max_decode_ratio
        /\ length_args.encoder_len * length_args.max_decode_ratio < (max_decode_steps + 1) * RatioDen

\* the bounds of a backend without a cap whose products are not whole
C22_Witness ==
    /\ driver = "bounds" /\ pc = "bounded" /\ length_args.backend = "base"
    /\ (length_args.encoder_len * length_args.max_decode_ratio) % RatioDen # 0
    /\ (length_args.encoder_len * length_args.min_decode_ratio) % RatioDen # 0
    /\ max_decode_steps > min_decode_steps /\ min_decode_steps > 0

\* the hard cap of a fixed-prefix decoder: max_length minus the prefix tokens
HardCap == length_args.max_length - PrefixTokens

Min(a, b) == IF a <= b THEN a ELSE b

\* C23: for fixed-prefix (Whisper) backends max_decode_steps is the default
\* bound clamped to the hard cap, min(default bound, cap), and never exceeds
\* the cap, for every encoder length and every max_decode_ratio.
C23_WhisperStepsClampedToCap ==
    (driver = "bounds" /\ pc = "bounded" /\ length_args.backend = "whisper") =>
        /\ max_decode_steps = Min(DefaultDecodeSteps(length_args).max, HardCap)
        /\ max_decode_steps <= HardCap

\* the step limit of a fixed-prefix decoder exceeds its cap
C23_StepsExceedCap ==
    /\ driver = "bounds" /\ pc = "bounded" /\ length_args.backend = "whisper"
    /\ max_decode_steps > HardCap

\* the number of positions the attention peak of beam i moved in the step
\* just taken
PeakMove(i) == Abs(attn_peak'[i] - prev_attn_peak[i])

\* the attention-shift stage replaced the whole row of beam i by the sentinel
RowMasked(i) == \A k \in 1 .. n_out : log_probs'[i][k] = minus_inf

\* the attention-shift stage left the row of beam i as the step function
\* gave it (the later stages touch the eos entry only)
RowKept(i) ==
    \A k \in 1 .. n_out : k # eos_index + 1 => log_probs'[i][k] = log_probs_clone'[i][k]

\* C24: with using_max_attn_shift on, a beam's whole row is replaced by the
\* negative sentinel exactly when its attention peak moved more than
\* max_attn_shift positions from the previous peak, forward or backward; a
\* move of at most max_attn_shift positions in either direction leaves the
\* row unchanged.
C24_RowMaskedExactlyBeyondShift ==
    [][(driver = "beam" /\ step' = step + 1 /\ using_max_attn_shift) =>
          \A i \in Beams :
              /\ PeakMove(i) > max_attn_shift => RowMasked(i)
              /\ PeakMove(i) <= max_attn_shift => RowKept(i)]_vars

\* stage a ran before stage b in the step just taken
RanBefore(a, b) ==
    \E j, k \in 1 .. Len(stage_order') :
        j < k /\ stage_order'[j] = a /\ stage_order'[k] = b

\* the three constraints ran before scorer fusion and top-K selection
ConstraintsBeforeFusionAndSelection ==
    \A c \in {"_max_attn_shift_step", "_set_eos_minus_inf_step", "_eos_threshold_step"} :
        /\ RanBefore(c, "_scorer_step")
        /\ RanBefore(c, "_compute_scores_and_next_inp_tokens")

\* C25: in each beam-search step the constraints are applied in the fixed
\* order minimum-length, then attention-shift window, then eos threshold, and
\* all three are applied before scorer fusion and top-K selection.
C25_MinLengthThenAttnShiftThenThreshold ==
    [][(driver = "beam" /\ step' = step + 1) =>
          /\ RanBefore("_set_eos_minus_inf_step", "_max_attn_shift_step")
          /\ RanBefore("_max_attn_shift_step", "_eos_threshold_step")
          /\ ConstraintsBeforeFusionAndSelection]_vars

\* C25 as the code has it: attention-shift window, then minimum-length, then
\* eos threshold, the distribution that enters selection being the step
\* function's rows taken through the three stages in that order
C25_AttnShiftThenMinLengthThenThreshold ==
    [][(driver = "beam" /\ step' = step + 1) =>
          /\ RanBefore("_max_attn_shift_step", "_set_eos_minus_inf_step")
          /\ RanBefore("_set_eos_minus_inf_step", "_eos_threshold_step")
          /\ ConstraintsBeforeFusionAndSelection
          /\ \A i \in Beams :
                log_probs'[i] =
                    _eos_threshold_step(
                        _set_eos_minus_inf_step(
                            _max_attn_shift_step(attn_peak'[i], prev_attn_peak[i],
                                                 log_probs_clone'[i]),
                            step, min_decode_steps))]_vars

\* a step ran in which the attention window masked a row, the minimum length
\* was not reached and the eos threshold was in use
C25_Witness ==
    /\ driver = "beam" /\ step = 1 /\ min_decode_steps = 1
    /\ using_max_attn_shift /\ using_eos_threshold
    /\ Len(stage_order) = 5
    /\ \E i \in Beams : \A k \in 1 .. n_out : log_probs[i][k] = minus_inf

\* C26: once a batch element's completed pool holds beam_size entries, its
\* entries and their order are left unchanged by every later search step and
\* by the forced fill, even when a beam of that element selects eos again.
C26_FullPoolFrozen ==
    [][\A b \in Batches :
          Len(Pool[b]) = beam_size => Pool'[b] = Pool[b]]_vars

\* a beam of an element whose pool is full selected eos again, and the pool
\* does not hold the hypothesis of that beam; the forced fill has run
C26_Witness ==
    /\ driver = "beam" /\ pc = "rank"
    /\ \E b \in Batches :
          /\ Len(Pool[b]) = beam_size
          /\ \E i \in BeamsOf(b) :
                /\ EndsWithEos(alived_seq[i])
                /\ \A k \in 1 .. Len(Pool[b]) : Pool[b][k].hyp # alived_seq[i]

\* C27: at every step, for every beam i of batch element b with flattened
\* top-K index c, token[i] = c mod n_out lies in [0, n_out) and
\* predecessor[i] = c div n_out + b * beam_size lies in
\* [b * beam_size, (b + 1) * beam_size): no beam extends a hypothesis, or
\* inherits memory, of another batch element.
C27_TokenAndPredecessorFromFlatIndex ==
    [][(driver = "beam" /\ step' = step + 1) =>
          \A b \in Batches : \A j \in 1 .. beam_size :
              LET i == b * beam_size + (j - 1)
                  c == candidates'[b + 1][j]
                  p == predecessors'[i]
              IN /\ c \in 0 .. (beam_size * n_out - 1)
                 /\ inp_tokens'[i] = c % n_out
                 /\ inp_tokens'[i] \in 0 .. (n_out - 1)
                 /\ p = (c \div n_out) + b * beam_size
                 /\ b * beam_size <= p /\ p < (b + 1) * beam_size
                 /\ alived_seq'[i] = Append(alived_seq[p], inp_tokens'[i])
                 /\ memory'[i] = Append(memory[p], inp_tokens[p])]_vars

\* in a search of two elements with two beams each, both beams of the second
\* element extend that element's second beam
C27_Witness ==
    /\ driver = "beam" /\ batch_size = 2 /\ beam_size = 2 /\ step = 2
    /\ predecessors[2] = 3 /\ predecessors[3] = 3
    /\ inp_tokens[2] # inp_tokens[3]

\* C30: after t beam-search steps every beam holds exactly t tokens and
\* exactly t per-token log-probabilities, and each beam's token sequence is
\* the sequence its predecessor held before the step followed by the one
\* token selected for that beam.
C30_SequencesGrowByOneTokenPerStep ==
    /\ [](driver = "beam" =>
             \A i \in Beams : Len(alived_seq[i]) = step /\ Len(alived_log_probs[i]) = step)
    /\ [][(driver = "beam" /\ step' = step + 1) =>
             \A i \in Beams :
                 LET p == predecessors'[i]
                 IN /\ alived_seq'[i] = alived_seq[p] \o <<inp_tokens'[i]>>
                    /\ alived_log_probs'[i] =
                          alived_log_probs[p] \o <<At(log_probs_clone'[p], inp_tokens'[i])>>]_vars

\* after two steps a beam holds two tokens and two log-probabilities, its
\* first token being the one its predecessor, another beam, held
C30_Witness ==
    /\ driver = "beam" /\ step = 2 /\ beam_size = 2
    /\ \E i \in Beams :
          /\ predecessors[i] # i
          /\ Len(alived_seq[i]) = 2 /\ Len(alived_log_probs[i]) = 2
          /\ \E j \in Beams : j # i /\ alived_seq[j][1] # alived_seq[i][1]

\* C31: whenever ranking starts after at least one search step, every batch
\* element's completed pool holds exactly beam_size entries, so the flat
\* index b * beam_size + j used by ranking addresses the j-th entry of batch
\* element b's pool.
C31_PoolsFullWhenRankingStarts ==
    (driver = "beam" /\ pc \in {"rank", "done"} /\ step >= 1) =>
        \A b \in Batches :
            /\ Len(Pool[b]) = beam_size
            /\ \A j \in 0 .. (beam_size - 1) :
                  CollectHypotheses(Pool, batch_size)[b * beam_size + j + 1] = Pool[b][j + 1]

\* ranking starts on two pools of two entries each, the second pool holding
\* a hypothesis that reached eos in a step and one added by the forced fill
C31_Witness ==
    /\ driver = "beam" /\ pc = "rank" /\ batch_size = 2 /\ beam_size = 2
    /\ EndsWithEos(Pool[1][1].hyp) /\ ~EndsWithEos(Pool[1][2].hyp)
    /\ Pool[0] # Pool[1]

\* the positions of the entries the forced fill adds to the pool of b
AddedByFill(b) == (Len(Pool[b]) + 1) .. Len(Pool'[b])

\* beam i did not select eos in the last search step and the pool of b
\* does not hold its hypothesis after the fill
LiveBeamLeftOut(b, i) ==
    /\ inp_tokens[i] # eos_index
    /\ \A k \in 1 .. Len(Pool'[b]) : Pool'[b][k].hyp # alived_seq[i]

\* C32: the forced fill never records a hypothesis that was already recorded
\* in the same pool during the last search step: every entry it adds comes
\* from a beam that did not select eos in that step, and no still-live beam
\* is left out of the pool in favour of a second copy of an ended beam.
C32_FillRecordsLiveBeamsOnly ==
    [][(driver = "beam" /\ pc = "fill" /\ pc' = "rank") =>
          \A b \in Batches :
              /\ \A k \in AddedByFill(b) :
                    \E i \in BeamsOf(b) :
                        inp_tokens[i] # eos_index /\ Pool'[b][k].hyp = alived_seq[i]
              /\ ~(/\ \E i \in BeamsOf(b) : LiveBeamLeftOut(b, i)
                    /\ \E k \in AddedByFill(b) : EndsWithEos(Pool'[b][k].hyp))]_vars

\* after the fill a pool holds the same hypothesis twice
C32_DuplicateInPool ==
    /\ driver = "beam" /\ pc = "rank"
    /\ \E b \in Batches : \E j, k \in 1 .. Len(Pool[b]) :
          j < k /\ Pool[b][j] = Pool[b][k] /\ EndsWithEos(Pool[b][j].hyp)
          /\ \E i \in BeamsOf(b) : inp_tokens[i] # eos_index

\* the number of positions of a hypothesis that hold eos
EosCount(seq) == Cardinality({t \in 1 .. Len(seq) : seq[t] = eos_index})

\* C33: if the vocabulary size is at least beam_size and the model's
\* log-probabilities are finite, every hypothesis recorded in a completed
\* pool during a search step holds eos exactly once, as its last token: no
\* beam that already ended is extended and recorded again.
C33_RecordedInStepHoldsOneEos ==
    [][(driver = "beam" /\ step' = step + 1 /\ n_out >= beam_size) =>
          \A b \in Batches : \A k \in AddedByFill(b) :
              /\ EndsWithEos(Pool'[b][k].hyp)
              /\ EosCount(Pool'[b][k].hyp) = 1]_vars

\* a beam that had ended was extended and selected eos again, and the pool
\* of its element holds hypotheses with a single eos only
C33_Witness ==
    /\ driver = "beam" /\ pc = "loop"
    /\ \E b \in Batches :
          /\ \E i \in BeamsOf(b) : EosCount(alived_seq[i]) = 2 /\ EndsWithEos(alived_seq[i])
          /\ Len(Pool[b]) > 0
          /\ \A k \in 1 .. Len(Pool[b]) : EosCount(Pool[b][k].hyp) = 1

\* the number of beams of b up to beam i that select eos in the step
EosRank(b, i) == Cardinality({j \in BeamsOf(b) : j <= i /\ inp_tokens'[j] = eos_index})

\* beam i selects eos in the step and finds the pool of b without a free slot
Discarded(b, i) ==
    /\ inp_tokens'[i] = eos_index
    /\ EosRank(b, i) > beam_size - Len(Pool[b])

\* C34: when, in one search step, more beams of a batch element select eos
\* than its completed pool has free slots, the hypotheses recorded have
\* final scores greater than or equal to those of the hypotheses discarded
\* in that step.
C34_RecordedScoreAtLeastDiscarded ==
    [][(driver = "beam" /\ step' = step + 1) =>
          \A b \in Batches : \A i \in BeamsOf(b) :
              Discarded(b, i) =>
                  \A k \in AddedByFill(b) :
                      /\ Pool'[b][k].den = scores_den'
                      /\ Pool'[b][k].final_scores >= scores'[i]]_vars

\* two beams selected eos in the last step, the pool had one free slot, and
\* it took the hypothesis with the strictly higher score
C34_Witness ==
    /\ driver = "beam" /\ pc = "loop" /\ beam_size = 2 /\ batch_size = 1
    /\ inp_tokens[0] = eos_index /\ inp_tokens[1] = eos_index
    /\ Len(Pool[0]) = 2
    /\ Pool[0][2].hyp = alived_seq[0]
    /\ Len(Pool[0][1].hyp) < step
    /\ scores[0] > scores[1] /\ scores[1] > NegInf

\* the cumulative score of extending beam p by token t in the step just
\* taken: the score p held plus the log-probability that entered selection
RawSum(p, t) == FAdd(sequence_scores[p], At(log_probs'[p], t))

\* the (predecessor, token) pairs selected for batch element b in the step
ChosenPairs(b) == {<<predecessors'[i], inp_tokens'[i]>> : i \in BeamsOf(b)}

\* the pool entry holds a cumulative score over the hypothesis length when
\* normalisation is on, and over 1 when it is off
FinalScoreDivisor(e) == IF length_normalization THEN Len(e.hyp) ELSE 1

RECURSIVE SumOfRecorded(_)
SumOfRecorded(lps) ==
    IF lps = <<>> THEN 0
    ELSE FAdd(SumOfRecorded(SubSeq(lps, 1, Len(lps) - 1)), lps[Len(lps)])

\* a beam that holds a cumulative score: not blocked at -inf, and no selected
\* candidate of its path was masked (no scorer is configured in the model)
UnmaskedBeams == {i \in Beams : ~selected_masked[i] /\ sequence_scores[i] # NegInf}

\* the value recorded for every token selected in the step is the step
\* function's, whatever the constraints made of it
RecordedBeforeConstraints ==
    [][(driver = "beam" /\ step' = step + 1) =>
          \A i \in Beams :
              alived_log_probs'[i] =
                  Append(alived_log_probs[predecessors'[i]],
                         At(log_probs_clone'[predecessors'[i]], inp_tokens'[i]))]_vars

\* C36 as claimed: the per-token log-probability recorded for each selected
\* token is the step function's value taken before constraint masking; hence
\* a beam's cumulative score equals the sum of its recorded per-token
\* log-probabilities whenever none of its selected candidates was masked.
C36_CumulativeScoreIsSumOfRecorded ==
    /\ RecordedBeforeConstraints
    /\ [](driver = "beam" =>
             \A i \in UnmaskedBeams :
                 sequence_scores[i] = SumOfRecorded(alived_log_probs[i]))

\* C36 as amended: the recorded value is the step function's; the cumulative
\* score of a beam that is not blocked and selected no masked candidate equals
\* the sum of its recorded values when length_normalization is off or no
\* divisor so far was other than a power of two, and is within the rounding
\* of the round trips through the normalised score otherwise.
C36_CumulativeScoreIsSumUpToRounding ==
    /\ RecordedBeforeConstraints
    /\ [](driver = "beam" =>
             \A i \in UnmaskedBeams :
                 /\ (~length_normalization \/ step <= 2) =>
                        sequence_scores[i] = SumOfRecorded(alived_log_probs[i])
                 /\ 2 * Abs(sequence_scores[i] - SumOfRecorded(alived_log_probs[i]))
                        <= step * step)

\* three steps with normalisation on and the attention-shift constraint in
\* force: a beam that selected no masked candidate holds three recorded
\* values, and its score is off their sum
C36_Witness ==
    /\ driver = "beam" /\ step = 3 /\ length_normalization /\ using_max_attn_shift
    /\ \E i \in UnmaskedBeams :
          /\ Len(alived_log_probs[i]) = 3
          /\ sequence_scores[i] # SumOfRecorded(alived_log_probs[i])

\* the eos-threshold stage has run on a row whose maximum is the
\* log-probability of eos
EosIsRowMaximum(i) == At(log_probs_clone[i], eos_index) = RowMax(log_probs_clone[i])

C37_CertainEosMasked ==
    /\ driver = "threshold" /\ pc = "masked" /\ using_eos_threshold
    /\ At(log_probs_clone[0], eos_index) = 0
    /\ EosIsRowMaximum(0)
    /\ At(log_probs[0], eos_index) = minus_inf

\* the minimum number of steps the searcher of invocation g would ask for
GreedyMinSteps(g) ==
    change_max_decoding_length(GreedySearcher(g), DefaultDecodeSteps(GreedySearcher(g))).min

\* C38: the output of a greedy search does not depend on min_decode_ratio:
\* two greedy searches that differ only in min_decode_ratio end the same way
\* and return the same result.  (That a row may emit eos and end at step 0,
\* below the minimum, is the state C38_Witness.)
C38_GreedyIgnoresMinDecodeRatio ==
    driver = "greedy" =>
        /\ (g_pc[1] = "done" /\ g_pc[2] = "done") => g_result[1] = g_result[2]
        /\ (g_pc[1] \in {"done", "error"} /\ g_pc[2] \in {"done", "error"})
              => g_pc[1] = g_pc[2]

\* two searches, one asking for at least one step and one for none, returned
\* the same result, in which a row emitted eos at step 0
C38_Witness ==
    /\ driver = "greedy" /\ g_pc[1] = "done" /\ g_pc[2] = "done"
    /\ GreedyMinSteps(1) = 1 /\ GreedyMinSteps(2) = 0
    /\ g_result[1] = g_result[2]
    /\ \E r \in Rows :
          /\ g_result[1][r].hyp[1] = eos_index
          /\ g_result[1][r].length_num = 1
====
